---- MODULE Spec2Model ----
(***************************************************************************)
(* CloudGauge (cloudgauge_beta_v25.py): scan orchestration and result      *)
(* aggregation.  One scan job: the dispatcher (/run-scan), the project     *)
(* workers (/scan-project), the report trigger (/generate-report), the     *)
(* aggregation worker (/run-aggregation) and the status query              *)
(* (/api/status), all sharing one results bucket.                          *)
(***************************************************************************)
EXTENDS Integers, Sequences, FiniteSets, Bags, TLC

(***************************************************************************)
(* Bounds of the model.                                                    *)
(***************************************************************************)
MaxProjects == 2     \* longest project list the inventory lookup returns
MaxFaults == 1       \* injected exceptions (enqueue, render, upload, delete)
MaxAggs == 2         \* deliveries of /run-aggregation tasks
MaxLen == 3          \* blobs merged in the merge specification
MaxOrgPolicies == 2  \* organisation policies evaluated in the score specification
JitterSteps == 2     \* values of random.uniform(0, 1) per half second
MaxDeliveries == 2   \* deliveries of the /run-scan task

(***************************************************************************)
(* Names.  A blob or check name is a sequence of tokens (words and the     *)
(* separators "_" and " "), so that str.replace is computed, not assumed.  *)
(***************************************************************************)
Job == "j1"
OtherJob == "j2"
ScopeId == "s"
ProjectIds == {"p1", "p2"}

ReplaceTok(name, old, new) ==
    [i \in 1..Len(name) |-> IF name[i] = old THEN new ELSE name[i]]

RemoveTok(name, tok) == SelectSeq(name, LAMBDA t : t # tok)

EndsWith(name, suffix) ==
    /\ Len(name) >= Len(suffix)
    /\ SubSeq(name, Len(name) - Len(suffix) + 1, Len(name)) = suffix

\* CHECK_NAME constants of the project-level checks the model runs.
PublicBuckets == <<"Public", " ", "GCS", " ", "Buckets">>
GkeHygiene == <<"GKE", " ", "Hygiene">>
RecentChangesCheck == <<"Recent", " ", "Changes", " ", "(Org", " ", "&", " ", "Project)">>

\* the literal "Recent_Changes" run_miscellaneous_checks_refactored passes as
\* the check_name of its Recent Changes finding
RecentChangesFile == <<"Recent", "_", "Changes">>

\* The checks one worker runs (run_all_checks' all_checks_to_run, cut to two).
WorkerChecks == {PublicBuckets, GkeHygiene}

\* blob basename a check writes: CHECK_NAME.replace(' ', '_') + ".json"
FileOf(check) == Append(ReplaceTok(check, " ", "_"), ".json")

\* os.path.basename(blob.name).replace('.json', '').replace("_", " ")
CheckNameOfBlob(name) == ReplaceTok(RemoveTok(name, ".json"), "_", " ")

SuccessName == <<"_SUCCESS">>
BestPracticesName == <<"best", "_", "practices", ".json">>
CurrentPoliciesName == <<"current", "_", "policies", ".json">>
StatusName == <<ScopeId, "_", "status", ".json">>
HtmlName == <<ScopeId, "_", "report", ".html">>
CsvName == <<ScopeId, "_", "report", ".csv">>

Categories == {"Security & Identity", "Cost Optimization",
               "Reliability & Resilience",
               "Operational Excellence & Observability"}

\* category_map.get(check_name); "" stands for None
category_map(check) ==
    CASE check = PublicBuckets -> "Security & Identity"
      [] check = GkeHygiene -> "Reliability & Resilience"
      [] check = RecentChangesCheck -> "Operational Excellence & Observability"
      [] OTHER -> ""

Statuses == {"Action Required", "Investigation Recommended", "Informational",
             "Compliant", "Error"}

\* a priority table in which Error outranks every other status
status_priority_m(s) ==
    CASE s = "Error" -> 0
      [] s = "Action Required" -> 1
      [] s = "Investigation Recommended" -> 2
      [] s = "Informational" -> 3
      [] s = "Compliant" -> 4
      [] OTHER -> 99

\* status_priority.get(status, 99)
status_priority(s) ==
    CASE s = "Action Required" -> 0
      [] s = "Investigation Recommended" -> 1
      [] s = "Informational" -> 2
      [] s = "Compliant" -> 3
      [] s = "Error" -> 4
      [] OTHER -> 99

(***************************************************************************)
(* The results bucket: a map from blob key to blob content.                *)
(***************************************************************************)
TempKey(job, res, name) == [job |-> job, dir |-> "temp_findings", res |-> res, name |-> name]
TopKey(job, name) == [job |-> job, dir |-> "", res |-> "", name |-> name]

FindingKey(res, check) == TempKey(Job, res, FileOf(check))
MarkerKey(res) == TempKey(Job, res, SuccessName)
\* f"{job_id}/temp_findings/{project_id}/{check_name}.json" for "Recent_Changes"
MiscKey(res) == TempKey(Job, res, Append(RecentChangesFile, ".json"))
StatusKey == TopKey(Job, StatusName)
HtmlKey == TopKey(Job, HtmlName)
CsvKey == TopKey(Job, CsvName)

Put(s, k, c) == [x \in (DOMAIN s) \cup {k} |-> IF x = k THEN c ELSE s[x]]
Delete(s, ks) == [x \in (DOMAIN s) \ ks |-> s[x]]

\* Every key under "<job>/temp_findings/" in the order list_blobs returns
\* them (lexicographic by blob name: upper case < "_" < lower case).
TempKeyOrder ==
    << TempKey(Job, "", BestPracticesName), TempKey(Job, "", CurrentPoliciesName),
       FindingKey("p1", GkeHygiene), FindingKey("p1", PublicBuckets),
       MiscKey("p1"), MarkerKey("p1"),
       FindingKey("p2", GkeHygiene), FindingKey("p2", PublicBuckets),
       MiscKey("p2"), MarkerKey("p2"),
       FindingKey("p3", GkeHygiene), FindingKey("p3", PublicBuckets),
       MiscKey("p3"), MarkerKey("p3") >>

\* a listing that matches "temp_findings/" under any job
ListTemp_m(s) ==
    SelectSeq(TempKeyOrder \o <<TempKey(OtherJob, "p1", SuccessName)>>,
              LAMBDA k : k \in DOMAIN s)

\* storage_client.list_blobs(RESULTS_BUCKET, prefix=f"{job_id}/temp_findings/")
ListTemp(s) == SelectSeq(TempKeyOrder, LAMBDA k : k \in DOMAIN s)

TransientKeys(s) == {k \in DOMAIN s : k.job = Job /\ k.dir = "temp_findings"}

(***************************************************************************)
(* _read_all_findings_from_gcs: group the finding blobs by category and    *)
(* check, keeping the status of lowest priority number per check.          *)
(***************************************************************************)
\* categorized_results = {cat: {} for cat in set(category_map.values())}
EmptyResults == [c \in Categories |-> << >>]

\* the last blob read decides the status
MergedStatus_m(existing_status, current_status) == current_status

\* "if status_priority.get(current_status, 99) < status_priority.get(
\* existing_status, 99)": the status the check keeps
MergedStatus(existing_status, current_status) ==
    IF status_priority(current_status) < status_priority(existing_status)
    THEN current_status ELSE existing_status

\* a merge in which the details of the last blob read replace the list
MergeBlob_m(acc, key, data) ==
    IF \/ key.name = SuccessName
       \/ EndsWith(key.name, BestPracticesName)
       \/ EndsWith(key.name, CurrentPoliciesName)
    THEN acc
    ELSE LET check_name == CheckNameOfBlob(key.name)
             category == category_map(check_name)
         IN IF category = "" THEN acc
            ELSE LET grp == acc[category]
                     first == check_name \notin DOMAIN grp
                     entry == IF first THEN [details |-> << >>, Status |-> data.Status]
                              ELSE grp[check_name]
                     merged == [details |-> data.Finding,
                                Status |-> MergedStatus(entry.Status, data.Status)]
                 IN [acc EXCEPT ![category] =
                        [n \in (DOMAIN grp) \cup {check_name} |->
                            IF n = check_name THEN merged ELSE grp[n]]]

\* the body of the loop "for blob in blob_list" for one blob whose content
\* downloads and parses
MergeBlob(acc, key, data) ==
    IF \/ key.name = SuccessName
       \/ EndsWith(key.name, BestPracticesName)
       \/ EndsWith(key.name, CurrentPoliciesName)
    THEN acc
    ELSE LET check_name == CheckNameOfBlob(key.name)
             category == category_map(check_name)
         IN IF category = "" THEN acc
            ELSE LET grp == acc[category]
                     first == check_name \notin DOMAIN grp
                     entry == IF first THEN [details |-> << >>, Status |-> data.Status]
                              ELSE grp[check_name]
                     merged == [details |-> entry.details \o data.Finding,
                                Status |-> MergedStatus(entry.Status, data.Status)]
                 IN [acc EXCEPT ![category] =
                        [n \in (DOMAIN grp) \cup {check_name} |->
                            IF n = check_name THEN merged ELSE grp[n]]]

\* the loop over a blob list; blobs is a sequence of [key, data] records
RECURSIVE MergeBlobs(_, _)
MergeBlobs(acc, blobs) ==
    IF blobs = << >> THEN acc
    ELSE MergeBlobs(MergeBlob(acc, Head(blobs).key, Head(blobs).data), Tail(blobs))

ReadAllFindings(s) ==
    LET keys == ListTemp(s)
    IN MergeBlobs(EmptyResults, [i \in 1..Len(keys) |-> [key |-> keys[i], data |-> s[keys[i]]]])

\* _read_org_policies_from_gcs: both raw-data blobs, or (None, None)
OrgPoliciesPresent(s) ==
    /\ TempKey(Job, "", BestPracticesName) \in DOMAIN s
    /\ TempKey(Job, "", CurrentPoliciesName) \in DOMAIN s

(***************************************************************************)
(* generate_html_report: the per-category scores and the summary counts.   *)
(* A score is kept in hundredths of a percent (100% = 10000).              *)
(***************************************************************************)
Counted0(grp, st) == {n \in DOMAIN grp : grp[n].Status = st}

CountStatus(grp, sts) == Cardinality({n \in DOMAIN grp : grp[n].Status \in sts})

\* a score that counts Informational checks as failed
CategoryScore_m(grp, org_compliant, org_total) ==
    LET pass_count == CountStatus(grp, {"Compliant"}) + org_compliant
        fail_count == CountStatus(grp, {"Action Required", "Investigation Recommended",
                                        "Informational", "Error"})
                      + (org_total - org_compliant)
        total_for_score == pass_count + fail_count
    IN IF total_for_score > 0 THEN (pass_count * 10000) \div total_for_score ELSE 10000

\* pass_count, fail_count, total_for_score, score of one category
CategoryScore(grp, org_compliant, org_total) ==
    LET pass_count == CountStatus(grp, {"Compliant"}) + org_compliant
        fail_count == CountStatus(grp, {"Action Required", "Investigation Recommended", "Error"})
                      + (org_total - org_compliant)
        total_for_score == pass_count + fail_count
    IN IF total_for_score > 0 THEN (pass_count * 10000) \div total_for_score ELSE 10000

CategoryScores(results, org) ==
    [c \in Categories |->
        IF c = "Security & Identity" /\ org
        THEN CategoryScore(results[c], 1, 1)
        ELSE CategoryScore(results[c], 0, 0)]

RECURSIVE SumOver(_, _)
SumOver(f, S) ==
    IF S = {} THEN 0
    ELSE LET x == CHOOSE y \in S : TRUE IN f[x] + SumOver(f, S \ {x})

\* a count of the detail records, one per project, of the checks in status st
TotalStatus_m(results, st) ==
    SumOver([c \in Categories |->
                SumOver([n \in Counted0(results[c], st) |-> Len(results[c][n].details)],
                        Counted0(results[c], st))], Categories)

\* sum(1 for finding in all_findings_for_summary if finding.get('Status') == st)
TotalStatus(results, st) ==
    SumOver([c \in Categories |-> CountStatus(results[c], {st})], Categories)

\* what both artifacts are rendered from (generate_html_report, generate_csv_data)
Report(results, org) ==
    [checks |-> [c \in Categories |-> [n \in DOMAIN results[c] |-> results[c][n].Status]],
     scores |-> CategoryScores(results, org),
     action_count |-> TotalStatus(results, "Action Required"),
     compliant_count |-> TotalStatus(results, "Compliant") + (IF org THEN 1 ELSE 0),
     org |-> org]


(***************************************************************************)
(* State.                                                                  *)
(***************************************************************************)
VARIABLES
    store,         \* the results bucket: blob key -> content
    disp,          \* the /run-scan dispatcher invocation
    workers,       \* bag of run_all_checks invocations (/scan-project tasks, inline run)
    aggs,          \* bag of aggregation runs (/run-aggregation tasks, inline run)
    faults,        \* exceptions injected so far
    mBlobs,        \* merge specification: the blob list being merged
    mIdx,          \* merge specification: the next blob of the loop
    mAcc,          \* merge specification: categorized_results so far
    sResults,      \* score specification: all_results given to generate_html_report
    sOrg,          \* score specification: org_policy_content_data
    sScores,       \* score specification: category_scores
    bCalls,        \* backoff specification: what each call of api_call_func does
    bAttempt,      \* backoff specification: the loop variable attempt
    bDelays,       \* backoff specification: the delays slept so far
    bResult        \* backoff specification: what the helper returned

svars == <<store, disp, workers, aggs, faults>>
mvars == <<mBlobs, mIdx, mAcc>>
fvars == <<sResults, sOrg, sScores, bCalls, bAttempt, bDelays, bResult>>
vars == <<store, disp, workers, aggs, faults, mBlobs, mIdx, mAcc,
          sResults, sOrg, sScores, bCalls, bAttempt, bDelays, bResult>>

\* the status a check reports for a project (the checks are opaque; the
\* model fixes what each finds)
CheckResult(res, check) ==
    IF check = PublicBuckets THEN "Action Required" ELSE "Compliant"

\* The project lists list_projects_for_scope may return, up to MaxProjects
\* long.  Project ids are interchangeable, so only lists that name "p1"
\* first and keep equal ids together are enumerated; a list may repeat an id.
ProjectRank(p) == IF p = "p1" THEN 1 ELSE 2

ResolvedLists ==
    {l \in UNION {[1..n -> ProjectIds] : n \in 0..MaxProjects} :
        /\ l # << >> => l[1] = "p1"
        /\ \A i \in 1..Len(l), j \in 1..Len(l) :
              i < j => ProjectRank(l[i]) <= ProjectRank(l[j])}

\* update_status_in_gcs(job_id, scope_id, progress, current_task, status)
StatusData(progress, task, status) ==
    [progress |-> progress, current_task |-> task, status |-> status]

\* update_status_in_gcs(..., project_count=n)
StatusDataCount(progress, task, status, n) ==
    [progress |-> progress, current_task |-> task, status |-> status, project_count |-> n]

UpdateStatus(s, data) == Put(s, StatusKey, data)

\* a write that appends to the finding already stored under the key
WriteFinding_m(s, res, check, status) ==
    Put(s, FindingKey(res, check),
        [Check |-> check,
         Finding |-> IF FindingKey(res, check) \in DOMAIN s
                     THEN Append(s[FindingKey(res, check)].Finding, <<res, check>>)
                     ELSE << <<res, check>> >>,
         Status |-> status])

\* _write_finding_to_gcs(job_id, project_id, CHECK_NAME.replace(' ', '_'), result)
WriteFinding(s, res, check, status) ==
    Put(s, FindingKey(res, check),
        [Check |-> check, Finding |-> << <<res, check>> >>, Status |-> status])

\* run_miscellaneous_checks_refactored, check 2: the finding names the check
\* "Recent Changes (Org & Project)" and is written as "Recent_Changes"
WriteMiscFinding(s, res) ==
    Put(s, MiscKey(res),
        [Check |-> RecentChangesCheck, Finding |-> << <<res, RecentChangesCheck>> >>,
         Status |-> "Informational"])

\* _write_org_policies_to_gcs
WriteOrgPolicies(s) ==
    Put(Put(s, TempKey(Job, "", BestPracticesName), [policies |-> 1]),
        TempKey(Job, "", CurrentPoliciesName), [enforced |-> 1])

\* a delivered invocation: run_all_checks has submitted every check to the pool
NewWorker(mode, res) ==
    [mode |-> mode, res |-> res, pc |-> "checks",
     chk |-> [c \in WorkerChecks |-> "running"], resp |-> 0, wrote |-> FALSE]

\* read: the blobs blob_list held when the run merged them, kept while the
\* run goes on to purge
NewAgg(mode) == [mode |-> mode, pc |-> "queued", resp |-> 0, read |-> {}]

\* Invocations carry no identity of their own: two invocations in the same
\* local state are interchangeable, so each collection is a bag of records.
AddTo(bag, r) == bag (+) SetToBag({r})
Move(bag, r, r2) == (bag (-) SetToBag({r})) (+) SetToBag({r2})

\* the function specifications at rest
FunctionsIdle ==
    /\ sResults = EmptyResults
    /\ sOrg = [present |-> FALSE, compliant |-> 0, total |-> 0]
    /\ sScores = << >>
    /\ bCalls = << >>
    /\ bAttempt = 0
    /\ bDelays = << >>
    /\ bResult = "none"

OtherJobBlobs ==
    [k \in {TempKey(OtherJob, "p1", SuccessName), TopKey(OtherJob, HtmlName)} |-> [text |-> ""]]

Init ==
    /\ store = OtherJobBlobs
    /\ disp = [pc |-> "queued", list |-> << >>, i |-> 1, resp |-> 0, inventory |-> "none",
               delivery |-> 1]
    /\ workers = EmptyBag
    /\ aggs = EmptyBag
    /\ faults = 0
    /\ mBlobs = << >>
    /\ mIdx = 1
    /\ mAcc = EmptyResults
    /\ FunctionsIdle

CanFault == faults < MaxFaults
Fault == faults' = faults + 1

(***************************************************************************)
(* run_scan_dispatcher                                                     *)
(***************************************************************************)
\* fan out for any non-empty list
FanOut_m(n) == n > 0

\* "if num_projects > 1": the fan-out path
FanOut(n) == n > 1

\* update_status_in_gcs(job_id, scope_id, 5, "Initializing scan...")
DispStart ==
    /\ disp.pc = "queued"
    /\ store' = UpdateStatus(store, StatusData(5, "Initializing", "running"))
    /\ disp' = [disp EXCEPT !.pc = "resolve", !.list = << >>, !.i = 1, !.resp = 0]
    /\ UNCHANGED <<workers, aggs, faults>>
    /\ UNCHANGED mvars
    /\ UNCHANGED fvars

\* all_projects = list_projects_for_scope(scope, scope_id), which answers
\* any exception of the inventory lookup with "return []"
DispResolve ==
    /\ disp.pc = "resolve"
    /\ \/ /\ \E l \in ResolvedLists :
                disp' = [disp EXCEPT !.list = l, !.inventory = "ok",
                                     !.pc = IF FanOut(Len(l)) THEN "scope" ELSE "policies"]
          /\ UNCHANGED faults
       \/ /\ CanFault /\ Fault
          /\ disp' = [disp EXCEPT !.list = << >>, !.inventory = "failed",
                                  !.pc = IF FanOut(0) THEN "scope" ELSE "policies"]
    /\ UNCHANGED <<store, workers, aggs>>
    /\ UNCHANGED mvars
    /\ UNCHANGED fvars

\* fan-out path: check_organization_policies(scope, scope_id, job_id); when the
\* policy data cannot be fetched its error branch calls _write_finding_to_gcs
\* with three arguments, a TypeError that leaves the handler (HTTP 500).
DispScopeChecks ==
    /\ disp.pc = "scope"
    /\ \/ /\ store' = WriteOrgPolicies(store)
          /\ disp' = [disp EXCEPT !.pc = "enqueue", !.i = 1]
          /\ UNCHANGED faults
       \/ /\ CanFault /\ Fault
          /\ disp' = [disp EXCEPT !.pc = "done", !.resp = 500]
          /\ UNCHANGED store
    /\ UNCHANGED <<workers, aggs>>
    /\ UNCHANGED mvars
    /\ UNCHANGED fvars

\* one iteration of "for project in all_projects": tasks_client.create_task
DispEnqueue ==
    /\ disp.pc = "enqueue"
    /\ disp.i <= Len(disp.list)
    /\ \/ /\ workers' = AddTo(workers, NewWorker("task", disp.list[disp.i]))
          /\ disp' = [disp EXCEPT !.i = @ + 1]
          /\ UNCHANGED faults
       \/ /\ CanFault /\ Fault
          /\ disp' = [disp EXCEPT !.pc = "done", !.resp = 500]
          /\ UNCHANGED workers
    /\ UNCHANGED <<store, aggs>>
    /\ UNCHANGED mvars
    /\ UNCHANGED fvars

\* after the loop: update_status_in_gcs(..., 50, ..., status="running",
\* project_count=num_projects); return 200
DispDispatched ==
    /\ disp.pc = "enqueue"
    /\ disp.i > Len(disp.list)
    /\ store' = UpdateStatus(store, StatusDataCount(50, "Dispatched", "running", Len(disp.list)))
    /\ disp' = [disp EXCEPT !.pc = "done", !.resp = 200]
    /\ UNCHANGED <<workers, aggs, faults>>
    /\ UNCHANGED mvars
    /\ UNCHANGED fvars

\* synchronous path: status 10, check_organization_policies, status 25,
\* then run_all_checks (which returns False at once for an empty list)
DispPolicies ==
    /\ disp.pc = "policies"
    /\ \/ /\ store' = UpdateStatus(WriteOrgPolicies(store), StatusData(25, "Running checks", "running"))
          /\ IF disp.list = << >>
             THEN /\ aggs' = AddTo(aggs, NewAgg("sync"))
                  /\ disp' = [disp EXCEPT !.pc = "aggregate"]
                  /\ UNCHANGED workers
             ELSE /\ workers' = AddTo(workers, NewWorker("inline", disp.list[1]))
                  /\ disp' = [disp EXCEPT !.pc = "checks"]
                  /\ UNCHANGED aggs
          /\ UNCHANGED faults
       \/ /\ CanFault /\ Fault
          /\ store' = UpdateStatus(store, StatusData(10, "Fetching policies", "running"))
          /\ disp' = [disp EXCEPT !.pc = "done", !.resp = 500]
          /\ UNCHANGED <<workers, aggs>>
    /\ UNCHANGED mvars
    /\ UNCHANGED fvars

(***************************************************************************)
(* run_all_checks and scan_project_worker                                  *)
(***************************************************************************)
WorkerIds == BagToSet(workers)

\* go on as soon as one future is done
AllChecksReturned_m(w) == \E c \in WorkerChecks : w.chk[c] # "running"

\* the as_completed loop has seen every future, and the executor's
\* "with" block has joined every thread
AllChecksReturned(w) == \A c \in WorkerChecks : w.chk[c] # "running"

SomeCheckRaised(w) == \E c \in WorkerChecks : w.chk[c] = "raised"

\* one check function returns: it wrote its finding, or it raised
CheckReturn(w, c) ==
    /\ w.pc = "checks"
    /\ w.chk[c] = "running"
    /\ \/ /\ store' = WriteFinding(store, w.res, c, CheckResult(w.res, c))
          /\ workers' = Move(workers, w, [w EXCEPT !.chk[c] = "ok"])
          /\ UNCHANGED faults
       \/ /\ CanFault /\ Fault
          /\ workers' = Move(workers, w, [w EXCEPT !.chk[c] = "raised"])
          /\ UNCHANGED store
    /\ UNCHANGED <<disp, aggs>>
    /\ UNCHANGED mvars
    /\ UNCHANGED fvars

\* run_all_checks returns.  When a future raised, the except branch calls
\* _write_finding_to_gcs(job_id, f"{project_id}_ERROR_...", error_result)
\* with three arguments for four parameters: a TypeError, raised before
\* anything is written, that leaves run_all_checks once the pool has joined.
\* scan_project_worker answers 500; run_scan_dispatcher has no handler.
\* Otherwise scan_project_worker uploads the _SUCCESS marker (a failed upload
\* is logged only) and answers 200; the dispatcher goes on to aggregate.
WorkerFinish(w) ==
    /\ w.pc = "checks"
    /\ AllChecksReturned(w)
    /\ IF SomeCheckRaised(w)
       THEN /\ workers' = Move(workers, w, [w EXCEPT !.pc = "done", !.resp = 500])
            /\ disp' = IF w.mode = "inline"
                       THEN [disp EXCEPT !.pc = "done", !.resp = 500] ELSE disp
            /\ UNCHANGED <<aggs, store, faults>>
       ELSE IF w.mode = "inline"
            THEN /\ workers' = Move(workers, w, [w EXCEPT !.pc = "done", !.resp = 200])
                 /\ aggs' = AddTo(aggs, NewAgg("sync"))
                 /\ disp' = [disp EXCEPT !.pc = "aggregate"]
                 /\ UNCHANGED <<store, faults>>
            ELSE /\ \/ /\ store' = Put(store, MarkerKey(w.res), [text |-> ""])
                       /\ workers' = Move(workers, w, [w EXCEPT !.pc = "done", !.resp = 200,
                                                     !.wrote = TRUE])
                       /\ UNCHANGED faults
                    \/ /\ CanFault /\ Fault
                       /\ workers' = Move(workers, w, [w EXCEPT !.pc = "done", !.resp = 200])
                       /\ UNCHANGED store
                 /\ UNCHANGED <<aggs, disp>>
    /\ UNCHANGED mvars
    /\ UNCHANGED fvars

(***************************************************************************)
(* generate_report_trigger and run_aggregation_worker (and the same steps  *)
(* inline at the end of the dispatcher's synchronous path)                 *)
(***************************************************************************)
AggIds == BagToSet(aggs)

\* the /run-aggregation tasks delivered so far
TaskAggCount ==
    LET S == {a \in AggIds : a.mode = "task"}
    IN SumOver([a \in S |-> CopiesIn(a, aggs)], S)

\* /generate-report: creates one /run-aggregation task, unconditionally.
\* A second delivery of that task by Cloud Tasks (at-least-once) starts the
\* same handler again and is the same step.
GenerateReportTrigger ==
    /\ TaskAggCount < MaxAggs
    /\ aggs' = AddTo(aggs, NewAgg("task"))
    /\ UNCHANGED <<store, disp, workers, faults>>
    /\ UNCHANGED mvars
    /\ UNCHANGED fvars

\* the "except Exception" of run_aggregation_worker: status error, 500.
\* The synchronous path has no handler: the exception leaves the dispatcher.
AggFail(a, s) ==
    /\ aggs' = Move(aggs, a, [a EXCEPT !.pc = "done", !.resp = 500, !.read = {}])
    /\ IF a.mode = "task"
       THEN /\ store' = UpdateStatus(s, StatusData(100, "Error", "error"))
            /\ UNCHANGED disp
       ELSE /\ store' = s
            /\ disp' = [disp EXCEPT !.pc = "done", !.resp = 500]

\* an upload of the HTML report only
UploadReports_m(s, rep) == Put(s, HtmlKey, rep)

\* bucket.blob(..._report.html).upload_from_string(html_report) and
\* bucket.blob(..._report.csv).upload_from_string(csv_report)
UploadReports(s, rep) == Put(Put(s, HtmlKey, rep), CsvKey, rep)

\* Steps 1-3 of run_aggregation_worker (lines 2939-2953 inline): status 75,
\* all_results = _read_all_findings_from_gcs(job_id) with the org policy data,
\* status 90, generate_html_report, generate_csv_data, and the two uploads.
\* The bucket is read once, at the start; an exception may come from the
\* listing, from the rendering or from either upload.
AggReport(a) ==
    /\ a.pc = "queued"
    /\ LET s75 == UpdateStatus(store, StatusData(75, "Aggregating", "running"))
           s90 == UpdateStatus(store, StatusData(90, "Generating", "running"))
           rep == Report(ReadAllFindings(store), OrgPoliciesPresent(store))
       IN \/ /\ store' = UploadReports(s90, rep)
             /\ aggs' = Move(aggs, a, [a EXCEPT !.pc = "purge", !.read = TransientKeys(store)])
             /\ UNCHANGED <<disp, faults>>
          \/ /\ CanFault /\ Fault
             /\ \/ AggFail(a, s75)
                \/ AggFail(a, s90)
                \/ AggFail(a, Put(s90, HtmlKey, rep))
    /\ UNCHANGED workers
    /\ UNCHANGED mvars
    /\ UNCHANGED fvars

DeleteFirst(s, plist, n) == Delete(s, {plist[i] : i \in 1..n})

\* Step 4: blobs_to_delete = list_blobs(prefix=.../temp_findings/), listed when
\* the loop starts, then "for blob in blobs_to_delete: blob.delete()"; an
\* exception of the m+1st delete leaves the first m blobs deleted.
AggPurge(a) ==
    /\ a.pc = "purge"
    /\ LET pl == ListTemp(store)
       IN \/ /\ store' = DeleteFirst(store, pl, Len(pl))
             /\ aggs' = Move(aggs, a, [a EXCEPT !.pc = "finish", !.read = {}])
             /\ UNCHANGED <<disp, faults>>
          \/ /\ CanFault /\ Fault
             /\ \E m \in 0..(Len(pl) - 1) : AggFail(a, DeleteFirst(store, pl, m))
    /\ UNCHANGED workers
    /\ UNCHANGED mvars
    /\ UNCHANGED fvars

\* update_status_in_gcs(..., 100, "Report generation complete!", status="completed")
AggFinish(a) ==
    /\ a.pc = "finish"
    /\ store' = UpdateStatus(store, StatusData(100, "Complete", "completed"))
    /\ aggs' = Move(aggs, a, [a EXCEPT !.pc = "done", !.resp = 200])
    /\ disp' = IF a.mode = "sync" THEN [disp EXCEPT !.pc = "done", !.resp = 200] ELSE disp
    /\ UNCHANGED <<workers, faults>>
    /\ UNCHANGED mvars
    /\ UNCHANGED fvars

(***************************************************************************)
(* api_check_status                                                        *)
(***************************************************************************)
\* every folder that holds a blob counts, marker or not
CompletedProjects_m(s) == {ListTemp(s)[i].res : i \in 1..Len(ListTemp(s))} \ {""}

\* the set built by the loop over the blobs under "<job>/temp_findings/"
CompletedProjects(s) ==
    {ListTemp(s)[i].res : i \in {j \in 1..Len(ListTemp(s)) : ListTemp(s)[j].name = SuccessName}}

\* ready as soon as one project is done
Ready_m(num_completed, project_count) == num_completed > 0

\* "if num_completed >= project_count"
Ready(num_completed, project_count) == num_completed >= project_count

StatusResponse(s) ==
    IF StatusKey \notin DOMAIN s THEN [status |-> "pending"]
    ELSE LET status_data == s[StatusKey]
         IN IF "project_count" \notin DOMAIN status_data \/ status_data.project_count <= 1
            THEN status_data
            ELSE LET num_completed == Cardinality(CompletedProjects(s))
                     ready == Ready(num_completed, status_data.project_count)
                 IN [progress |-> status_data.progress,
                     project_count |-> status_data.project_count,
                     completed_projects |-> num_completed,
                     current_task |-> IF ready THEN "Ready" ELSE "Processing",
                     status |-> IF ready THEN "ready_to_aggregate" ELSE status_data.status]

Next ==
    \/ DispStart
    \/ DispResolve
    \/ DispScopeChecks
    \/ DispEnqueue
    \/ DispDispatched
    \/ DispPolicies
    \/ \E w \in WorkerIds : \E c \in WorkerChecks : CheckReturn(w, c)
    \/ \E w \in WorkerIds : WorkerFinish(w)
    \/ GenerateReportTrigger
    \/ \E a \in AggIds : AggReport(a)
    \/ \E a \in AggIds : AggPurge(a)
    \/ \E a \in AggIds : AggFinish(a)

Spec == Init /\ [][Next]_vars

(***************************************************************************)
(* The merge on its own: _read_all_findings_from_gcs applied, blob by      *)
(* blob, to any list of finding blobs with distinct keys.                  *)
(***************************************************************************)
\* the finding blobs of three projects, in the order list_blobs returns them
MergeKeyOrder ==
    << FindingKey("p1", GkeHygiene), FindingKey("p1", PublicBuckets),
       FindingKey("p2", GkeHygiene), FindingKey("p2", PublicBuckets),
       FindingKey("p3", GkeHygiene), FindingKey("p3", PublicBuckets) >>

\* blob_list: up to MaxLen of those blobs, each holding a finding of any of
\* the five statuses
MergeInputs ==
    UNION {{[i \in 1..n |-> [key |-> MergeKeyOrder[ix[i]],
                             data |-> [Finding |-> << MergeKeyOrder[ix[i]].res >>,
                                       Status |-> sts[i]]]] :
               ix \in {f \in [1..n -> 1..Len(MergeKeyOrder)] :
                          \A i \in 1..n, j \in 1..n : i < j => f[i] < f[j]},
               sts \in [1..n -> Statuses]} : n \in 0..MaxLen}

InitMerge ==
    /\ store = OtherJobBlobs
    /\ disp = [pc |-> "queued", list |-> << >>, i |-> 1, resp |-> 0, inventory |-> "none",
               delivery |-> 1]
    /\ workers = EmptyBag
    /\ aggs = EmptyBag
    /\ faults = 0
    /\ mBlobs \in MergeInputs
    /\ mIdx = 1
    /\ mAcc = EmptyResults
    /\ FunctionsIdle

\* one iteration of "for blob in blob_list"
MergeStep ==
    /\ mIdx <= Len(mBlobs)
    /\ mAcc' = MergeBlob(mAcc, mBlobs[mIdx].key, mBlobs[mIdx].data)
    /\ mIdx' = mIdx + 1
    /\ UNCHANGED <<mBlobs, svars>>
    /\ UNCHANGED fvars

NextMerge == MergeStep

SpecMerge == InitMerge /\ [][NextMerge]_vars

(***************************************************************************)
(* The score loop of generate_html_report on its own, applied to any       *)
(* merged results and any organisation-policy counts.                      *)
(***************************************************************************)
OpenFirewall == <<"Open", " ", "Firewall", " ", "Rules", " ", "(any)">>
ProjectIam == <<"Project", " ", "IAM", " ", "Hygiene">>
SaKeyRotation == <<"Service", " ", "Account", " ", "Key", " ", "Rotation">>

\* four of the checks category_map files under "Security & Identity"
SecurityChecks == {PublicBuckets, OpenFirewall, ProjectIam, SaKeyRotation}

\* the merged entries of a category over the checks in cs
Groups(cs) ==
    UNION {[S -> {[details |-> << >>, Status |-> st] : st \in Statuses}] : S \in SUBSET cs}

ScoreInputs ==
    {[c \in Categories |->
        IF c = "Security & Identity" THEN sec
        ELSE IF c = "Reliability & Resilience" THEN rel ELSE << >>] :
     sec \in Groups(SecurityChecks), rel \in Groups({GkeHygiene})}

\* org_policy_content_data: None, or the compliant and the total policy count
OrgInputs ==
    {[present |-> FALSE, compliant |-> 0, total |-> 0]}
    \cup {[present |-> TRUE, compliant |-> k, total |-> n] :
              n \in 0..MaxOrgPolicies, k \in 0..MaxOrgPolicies}

InitScore ==
    /\ store = OtherJobBlobs
    /\ disp = [pc |-> "queued", list |-> << >>, i |-> 1, resp |-> 0, inventory |-> "none",
               delivery |-> 1]
    /\ workers = EmptyBag
    /\ aggs = EmptyBag
    /\ faults = 0
    /\ mBlobs = << >>
    /\ mIdx = 1
    /\ mAcc = EmptyResults
    /\ sResults \in ScoreInputs
    /\ sOrg \in {o \in OrgInputs : o.compliant <= o.total}
    /\ sScores = << >>
    /\ bCalls = << >>
    /\ bAttempt = 0
    /\ bDelays = << >>
    /\ bResult = "none"

\* "for category_name in category_order": the score of every category
ScoreStep ==
    /\ sScores = << >>
    /\ sScores' = [c \in Categories |->
                      IF c = "Security & Identity" /\ sOrg.present
                      THEN CategoryScore(sResults[c], sOrg.compliant, sOrg.total)
                      ELSE CategoryScore(sResults[c], 0, 0)]
    /\ UNCHANGED <<sResults, sOrg, bCalls, bAttempt, bDelays, bResult>>
    /\ UNCHANGED <<svars, mvars>>

NextScore == ScoreStep

SpecScore == InitScore /\ [][NextScore]_vars

(***************************************************************************)
(* _call_api_with_backoff on its own.  Time is counted in units of         *)
(* 1 / (2 * JitterSteps) second, so that initial_delay (1.5 s) and every   *)
(* modelled value of random.uniform(0, 1) are whole numbers of units.      *)
(***************************************************************************)
max_retries == 5
initial_delay_halves == 3     \* initial_delay = 1.5 seconds, in half seconds
backoff_factor == 2

RECURSIVE Pow(_, _)
Pow(b, n) == IF n = 0 THEN 1 ELSE b * Pow(b, n - 1)

\* the values random.uniform(0, 1) takes in the model: 0 <= jitter < 1 second
Jitters == 0..(2 * JitterSteps - 1)

\* a delay that does not grow with the attempt
Delay_m(attempt, jitter) == initial_delay_halves * JitterSteps + jitter

\* (initial_delay * (backoff_factor ** attempt)) + random.uniform(0, 1)
Delay(attempt, jitter) ==
    initial_delay_halves * JitterSteps * Pow(backoff_factor, attempt) + jitter

\* what a call of api_call_func does: it raises ResourceExhausted ("rate"),
\* raises another exception ("other") or returns ("ok")
CallOutcomes == {"rate", "other", "ok"}

InitBackoff ==
    /\ store = OtherJobBlobs
    /\ disp = [pc |-> "queued", list |-> << >>, i |-> 1, resp |-> 0, inventory |-> "none",
               delivery |-> 1]
    /\ workers = EmptyBag
    /\ aggs = EmptyBag
    /\ faults = 0
    /\ mBlobs = << >>
    /\ mIdx = 1
    /\ mAcc = EmptyResults
    /\ sResults = EmptyResults
    /\ sOrg = [present |-> FALSE, compliant |-> 0, total |-> 0]
    /\ sScores = << >>
    /\ bCalls \in [1..max_retries -> CallOutcomes]
    /\ bAttempt = 0
    /\ bDelays = << >>
    /\ bResult = "none"

\* every exception of the wrapped call is retried
Retried_m(outcome) == outcome \in {"rate", "other"}

\* "except core_exceptions.ResourceExhausted": the one exception retried
Retried(outcome) == outcome = "rate"

\* one iteration of "for attempt in range(max_retries)"
BackoffAttempt ==
    /\ bResult = "none"
    /\ bAttempt < max_retries
    /\ LET outcome == bCalls[bAttempt + 1]
       IN CASE outcome = "ok" ->
                 /\ bResult' = "value"
                 /\ UNCHANGED <<bAttempt, bDelays>>
            [] Retried(outcome) /\ bAttempt < max_retries - 1 ->
                 /\ \E jitter \in Jitters :
                        bDelays' = Append(bDelays, Delay(bAttempt, jitter))
                 /\ bAttempt' = bAttempt + 1
                 /\ UNCHANGED bResult
            [] OTHER ->
                 /\ bResult' = "empty"
                 /\ UNCHANGED <<bAttempt, bDelays>>
    /\ UNCHANGED <<bCalls, sResults, sOrg, sScores>>
    /\ UNCHANGED <<svars, mvars>>

NextBackoff == BackoffAttempt

SpecBackoff == InitBackoff /\ [][NextBackoff]_vars

\* the loop is sequential code: an iteration that can run does run
SpecBackoffLive == SpecBackoff /\ WF_vars(NextBackoff)

(***************************************************************************)
(* One fan-out job end to end, without exceptions: a scope of three        *)
(* projects, from the dispatcher's enqueue loop on; the user submits the   *)
(* "Generate Final Report" form, which the status page shows while the     *)
(* status query answers ready_to_aggregate.                                *)
(***************************************************************************)
ThreeProjects == <<"p1", "p2", "p3">>

InitEndToEnd ==
    /\ store = UpdateStatus(WriteOrgPolicies(OtherJobBlobs),
                            StatusData(5, "Initializing", "running"))
    /\ disp = [pc |-> "enqueue", list |-> ThreeProjects, i |-> 1, resp |-> 0,
               inventory |-> "ok", delivery |-> 1]
    /\ workers = EmptyBag
    /\ aggs = EmptyBag
    /\ faults = MaxFaults
    /\ mBlobs = << >>
    /\ mIdx = 1
    /\ mAcc = EmptyResults
    /\ FunctionsIdle

\* the form of the status page (case 'ready_to_aggregate'), submitted
ReadyTrigger ==
    /\ StatusResponse(store).status = "ready_to_aggregate"
    /\ GenerateReportTrigger

NextEndToEnd ==
    \/ DispEnqueue
    \/ DispDispatched
    \/ \E w \in WorkerIds : \E c \in WorkerChecks : CheckReturn(w, c)
    \/ \E w \in WorkerIds : WorkerFinish(w)
    \/ ReadyTrigger
    \/ \E a \in AggIds : AggReport(a)
    \/ \E a \in AggIds : AggPurge(a)
    \/ \E a \in AggIds : AggFinish(a)

SpecEndToEnd == InitEndToEnd /\ [][NextEndToEnd]_vars

(***************************************************************************)
(* The /run-scan task delivered more than once, without exceptions: Cloud  *)
(* Tasks delivers at least once, so the handler may run again after it     *)
(* has returned.                                                           *)
(***************************************************************************)
InitRedelivery ==
    /\ store = OtherJobBlobs
    /\ disp = [pc |-> "queued", list |-> << >>, i |-> 1, resp |-> 0, inventory |-> "none",
               delivery |-> 1]
    /\ workers = EmptyBag
    /\ aggs = EmptyBag
    /\ faults = MaxFaults
    /\ mBlobs = << >>
    /\ mIdx = 1
    /\ mAcc = EmptyResults
    /\ FunctionsIdle

\* the task create_scan_task created is delivered again: run_scan_dispatcher
\* starts over with the same payload
DispRedeliver ==
    /\ disp.pc = "done"
    /\ disp.delivery < MaxDeliveries
    /\ disp' = [disp EXCEPT !.pc = "queued", !.delivery = @ + 1]
    /\ UNCHANGED <<store, workers, aggs, faults>>
    /\ UNCHANGED mvars
    /\ UNCHANGED fvars

NextRedelivery ==
    \/ DispStart
    \/ DispResolve
    \/ DispScopeChecks
    \/ DispEnqueue
    \/ DispDispatched
    \/ DispPolicies
    \/ DispRedeliver
    \/ \E w \in WorkerIds : \E c \in WorkerChecks : CheckReturn(w, c)
    \/ \E w \in WorkerIds : WorkerFinish(w)
    \/ \E a \in AggIds : AggReport(a)
    \/ \E a \in AggIds : AggPurge(a)
    \/ \E a \in AggIds : AggFinish(a)

SpecRedelivery == InitRedelivery /\ [][NextRedelivery]_vars

(***************************************************************************)
(* One job in which nothing raises and every invocation that can take a    *)
(* step eventually takes it: each enqueued worker completes.  No report is *)
(* requested, so nothing is purged on the fan-out path.                    *)
(***************************************************************************)
InitFanIn == InitRedelivery

NextFanIn ==
    \/ DispStart
    \/ DispResolve
    \/ DispScopeChecks
    \/ DispEnqueue
    \/ DispDispatched
    \/ DispPolicies
    \/ \E w \in WorkerIds : \E c \in WorkerChecks : CheckReturn(w, c)
    \/ \E w \in WorkerIds : WorkerFinish(w)
    \/ \E a \in AggIds : AggReport(a)
    \/ \E a \in AggIds : AggPurge(a)
    \/ \E a \in AggIds : AggFinish(a)

SpecFanIn == InitFanIn /\ [][NextFanIn]_vars /\ WF_vars(NextFanIn)

(***************************************************************************)
(* One aggregation read on its own: the blobs of a job are written by the  *)
(* checks, the workers and the policy check, then listed once and merged   *)
(* blob by blob.                                                           *)
(***************************************************************************)
InitAggregate ==
    /\ store = OtherJobBlobs
    /\ disp = [pc |-> "queued", list |-> << >>, i |-> 1, resp |-> 0, inventory |-> "none",
               delivery |-> 1]
    /\ workers = EmptyBag
    /\ aggs = EmptyBag
    /\ faults = 0
    /\ mBlobs = << >>
    /\ mIdx = 1
    /\ mAcc = EmptyResults
    /\ FunctionsIdle

NotListed == mBlobs = << >> /\ mIdx = 1

\* a check of run_all_checks writes its finding
StoreFinding(res, c) ==
    /\ NotListed
    /\ store' = WriteFinding(store, res, c, CheckResult(res, c))
    /\ UNCHANGED <<disp, workers, aggs, faults>>
    /\ UNCHANGED mvars
    /\ UNCHANGED fvars

\* run_miscellaneous_checks_refactored writes its Recent Changes finding
StoreMisc(res) ==
    /\ NotListed
    /\ store' = WriteMiscFinding(store, res)
    /\ UNCHANGED <<disp, workers, aggs, faults>>
    /\ UNCHANGED mvars
    /\ UNCHANGED fvars

\* scan_project_worker writes the _SUCCESS marker
StoreMarker(res) ==
    /\ NotListed
    /\ store' = Put(store, MarkerKey(res), [text |-> ""])
    /\ UNCHANGED <<disp, workers, aggs, faults>>
    /\ UNCHANGED mvars
    /\ UNCHANGED fvars

\* check_organization_policies writes the raw policy data
StorePolicies ==
    /\ NotListed
    /\ store' = WriteOrgPolicies(store)
    /\ UNCHANGED <<disp, workers, aggs, faults>>
    /\ UNCHANGED mvars
    /\ UNCHANGED fvars

\* blob_list = list(storage_client.list_blobs(...)), each blob with the
\* content the loop downloads
ListBlobs ==
    /\ NotListed
    /\ ListTemp(store) # << >>
    /\ mBlobs' = [i \in 1..Len(ListTemp(store)) |->
                     [key |-> ListTemp(store)[i], data |-> store[ListTemp(store)[i]]]]
    /\ UNCHANGED <<mIdx, mAcc, svars>>
    /\ UNCHANGED fvars

NextAggregate ==
    \/ \E res \in ProjectIds : \E c \in WorkerChecks : StoreFinding(res, c)
    \/ \E res \in ProjectIds : StoreMisc(res)
    \/ \E res \in ProjectIds : StoreMarker(res)
    \/ StorePolicies
    \/ ListBlobs
    \/ MergeStep

SpecAggregate == InitAggregate /\ [][NextAggregate]_vars

(***************************************************************************)
(* Properties.                                                             *)
(***************************************************************************)
TaskWorkerCount(bag, p) ==
    LET S == {w \in BagToSet(bag) : w.mode = "task" /\ w.res = p}
    IN SumOver([w \in S |-> CopiesIn(w, bag)], S)

Occurrences(l, p) == Cardinality({i \in 1..Len(l) : l[i] = p})

HasCount(s, n) ==
    /\ StatusKey \in DOMAIN s
    /\ "project_count" \in DOMAIN s[StatusKey]
    /\ s[StatusKey].project_count = n

\* C1: when the dispatcher returns 200 for a list of N >= 2 projects, the
\* task queue holds exactly one /scan-project invocation per list element and
\* the status record carries project_count = N; for a list of N <= 1 projects
\* no /scan-project invocation is ever enqueued.
C1_DispatchFanOut ==
    [][/\ (disp.pc # "done" /\ disp'.pc = "done" /\ disp'.resp = 200 /\ Len(disp'.list) >= 2)
          => /\ \A p \in ProjectIds :
                   TaskWorkerCount(workers', p) = Occurrences(disp'.list, p)
             /\ HasCount(store', Len(disp'.list))
       /\ (disp'.pc \notin {"queued", "resolve"} /\ Len(disp'.list) <= 1)
          => \A p \in ProjectIds : TaskWorkerCount(workers', p) = 0]_vars

C1_Witness ==
    /\ disp.pc = "done" /\ disp.resp = 200 /\ disp.list = <<"p1", "p2">>
    /\ TaskWorkerCount(workers, "p1") = 1 /\ TaskWorkerCount(workers, "p2") = 1
    /\ HasCount(store, 2)

\* the step in which invocation w of run_all_checks returns, as w2
Returns(w, w2) ==
    /\ w.pc = "checks" /\ w2.pc = "done"
    /\ w2.res = w.res /\ w2.chk = w.chk /\ w2.mode = w.mode
    /\ workers' = Move(workers, w, w2)

HasErrorFinding(s, res) ==
    \E k \in TransientKeys(s) :
        /\ k.res = res
        /\ "Status" \in DOMAIN s[k]
        /\ s[k].Status = "Error"

\* C2: when a check of a worker invocation raised, the invocation still ends
\* with an Error-status finding stored for it, with every sibling check
\* returned, and with the completion marker of its project written.
C2_CheckFailureIsolated ==
    [][\A w \in BagToSet(workers) : \A w2 \in BagToSet(workers') :
          (w.mode = "task" /\ Returns(w, w2) /\ \E c \in WorkerChecks : w.chk[c] = "raised")
          => /\ \A c \in WorkerChecks : w.chk[c] \in {"ok", "raised"}
             /\ HasErrorFinding(store', w.res)
             /\ w2.wrote /\ MarkerKey(w.res) \in DOMAIN store']_vars

\* C3: an invocation that has written its completion marker has no check
\* still running.
C3_MarkerAfterChecks ==
    \A w \in BagToSet(workers) :
        w.wrote => \A c \in WorkerChecks : w.chk[c] \in {"ok", "raised"}

C3_Witness ==
    /\ \E w \in BagToSet(workers) : w.wrote /\ MarkerKey(w.res) \in DOMAIN store
    /\ \E w \in BagToSet(workers) : w.pc = "checks" /\ \E c \in WorkerChecks : w.chk[c] = "running"

MarkedProjects(s) == {p \in ProjectIds : MarkerKey(p) \in DOMAIN s}

\* a step of aggregation run a (its state leaves the bag)
Steps(a) == CopiesIn(a, aggs') < CopiesIn(a, aggs)

\* the dispatcher has returned 200 on the fan-out path
Dispatched == disp.pc = "done" /\ disp.resp = 200 /\ Len(disp.list) > 1

\* C4: for a dispatched fan-out job, an aggregation task reads or purges the
\* findings only when at least resource_count distinct projects bear a marker.
C4_AggregationGated ==
    [][\A a \in BagToSet(aggs) :
          (a.mode = "task" /\ a.pc \in {"queued", "purge"} /\ Steps(a) /\ Dispatched)
          => Cardinality(MarkedProjects(store)) >= Len(disp.list)]_vars

\* C5: when an aggregation task of a dispatched fan-out job fails, the status
\* record becomes error and no transient blob of the job has been deleted by it.
C5_FailedAggregationKeepsData ==
    [][\A a \in BagToSet(aggs) :
          (a.mode = "task" /\ a.pc # "done" /\ Dispatched
             /\ aggs' = Move(aggs, a, [a EXCEPT !.pc = "done", !.resp = 500, !.read = {}]))
          => /\ store'[StatusKey].status = "error"
             /\ TransientKeys(store') = TransientKeys(store)]_vars

\* C6: when an aggregation (the inline one, or a task of a dispatched fan-out
\* job) writes status completed, nothing is left under the job's
\* temp_findings prefix.
C6_CompletedStoreEmpty ==
    [][\A a \in BagToSet(aggs) :
          (/\ a.pc = "finish" /\ (a.mode = "sync" \/ Dispatched)
           /\ aggs' = Move(aggs, a, [a EXCEPT !.pc = "done", !.resp = 200]))
          => TransientKeys(store') = {}]_vars

\* C7: an aggregation task that runs after an aggregation of the dispatched
\* fan-out job has completed leaves both report artifacts as they were.
C7_AggregatorIdempotent ==
    [][\A a \in BagToSet(aggs) :
          (/\ a.mode = "task" /\ a.pc = "queued" /\ Dispatched
           /\ \E a2 \in BagToSet(aggs') : a2.pc = "purge" /\ aggs' = Move(aggs, a, a2)
           /\ \E b \in BagToSet(aggs) : b.pc = "done" /\ b.resp = 200)
          => /\ store'[HtmlKey] = store[HtmlKey]
             /\ store'[CsvKey] = store[CsvKey]]_vars

\* C8: the completed_projects the status query returns is the number of
\* distinct projects bearing a marker, and writing the marker of a project
\* that already has one leaves it unchanged.
C8_CompletedCountDistinct ==
    [][/\ "completed_projects" \in DOMAIN StatusResponse(store')
          => StatusResponse(store').completed_projects = Cardinality(MarkedProjects(store'))
       /\ \A w \in BagToSet(workers) : \A w2 \in BagToSet(workers') :
             (Returns(w, w2) /\ w2.wrote /\ MarkerKey(w.res) \in DOMAIN store
                /\ "completed_projects" \in DOMAIN StatusResponse(store))
             => /\ "completed_projects" \in DOMAIN StatusResponse(store')
                /\ StatusResponse(store').completed_projects
                      = StatusResponse(store).completed_projects]_vars

C8_Witness ==
    /\ \E w \in BagToSet(workers) : w.wrote /\ CopiesIn(w, workers) = 2
    /\ "completed_projects" \in DOMAIN StatusResponse(store)
    /\ StatusResponse(store).completed_projects = 1
    /\ StatusResponse(store).project_count = 2

IndexPermutations(n) ==
    {f \in [1..n -> 1..n] : \A i \in 1..n, j \in 1..n : i # j => f[i] # f[j]}

StatusView(results) ==
    [c \in Categories |-> [n \in DOMAIN results[c] |-> results[c][n].Status]]

\* C9: merging the same finding blobs in any other order gives the same
\* status per check and the same score per category.
C9_MergeOrderIrrelevant ==
    mIdx > Len(mBlobs) =>
        \A f \in IndexPermutations(Len(mBlobs)) :
            LET other == MergeBlobs(EmptyResults, [i \in 1..Len(mBlobs) |-> mBlobs[f[i]]])
            IN /\ StatusView(other) = StatusView(mAcc)
               /\ CategoryScores(other, FALSE) = CategoryScores(mAcc, FALSE)

C9_Witness ==
    /\ Len(mBlobs) = 3 /\ mIdx = 4
    /\ \A i \in 1..3 : mBlobs[i].key.name = FileOf(PublicBuckets)
    /\ mBlobs[1].data.Status = "Compliant"
    /\ mBlobs[2].data.Status = "Action Required"
    /\ mBlobs[3].data.Status = "Informational"
    /\ mAcc["Security & Identity"][PublicBuckets].Status = "Action Required"

\* the fixed order: Action Required(0) < Investigation Recommended(1) <
\* Informational(2) < Compliant(3) < Error(4)
PriorityOrder == <<"Action Required", "Investigation Recommended", "Informational",
                   "Compliant", "Error">>

Rank(st) == CHOOSE i \in 1..Len(PriorityOrder) : PriorityOrder[i] = st

BlobsOf(check) == {i \in 1..Len(mBlobs) : CheckNameOfBlob(mBlobs[i].key.name) = check}

\* C10: once every blob is merged, the status of a check is the one of lowest
\* priority number among its findings; and merging an Error finding into a
\* check that has a status leaves that status as it is.
C10_LowestPriorityWins ==
    [][/\ mIdx' > Len(mBlobs') =>
            \A c \in WorkerChecks :
                BlobsOf(c) # {} =>
                    /\ c \in DOMAIN mAcc'[category_map(c)]
                    /\ \E i \in BlobsOf(c) :
                          /\ mAcc'[category_map(c)][c].Status = mBlobs[i].data.Status
                          /\ \A j \in BlobsOf(c) :
                                Rank(mBlobs[i].data.Status) <= Rank(mBlobs[j].data.Status)
       /\ \A c \in WorkerChecks :
            (/\ mIdx' = mIdx + 1
             /\ CheckNameOfBlob(mBlobs[mIdx].key.name) = c
             /\ mBlobs[mIdx].data.Status = "Error"
             /\ c \in DOMAIN mAcc[category_map(c)])
            => mAcc'[category_map(c)][c].Status = mAcc[category_map(c)][c].Status]_vars

C10_Witness ==
    /\ Len(mBlobs) = 3 /\ mIdx = 4
    /\ \A i \in 1..3 : mBlobs[i].key.name = FileOf(GkeHygiene)
    /\ mBlobs[1].data.Status = "Compliant"
    /\ mBlobs[2].data.Status = "Error"
    /\ mBlobs[3].data.Status = "Action Required"
    /\ mAcc["Reliability & Resilience"][GkeHygiene].Status = "Action Required"

\* the checks of a group in one of the given statuses
Counted(grp, sts) == {n \in DOMAIN grp : grp[n].Status \in sts}

Compliant(grp) == Cardinality(Counted(grp, {"Compliant"}))

NonCompliant(grp) ==
    Cardinality(Counted(grp, {"Action Required", "Investigation Recommended", "Error"}))

\* compliant / (compliant + non_compliant) x 100, in hundredths of a percent
Ratio(compliant, non_compliant) ==
    IF compliant + non_compliant = 0 THEN 10000
    ELSE (compliant * 10000) \div (compliant + non_compliant)

\* C11 as stated: the score of every category is the ratio over its merged
\* checks alone.
C11_ScoreOverChecks ==
    sScores # << >> =>
        \A c \in Categories :
            sScores[c] = Ratio(Compliant(sResults[c]), NonCompliant(sResults[c]))

\* C11: the score of a category is the ratio over its merged checks, the
\* evaluated organisation policies counting as further checks of Security &
\* Identity when the report has organisation-policy data.
C11_ScoreWithPolicies ==
    sScores # << >> =>
        \A c \in Categories :
            LET org == c = "Security & Identity" /\ sOrg.present
                k == IF org THEN sOrg.compliant ELSE 0
                n == IF org THEN sOrg.total ELSE 0
            IN sScores[c] = Ratio(Compliant(sResults[c]) + k,
                                  NonCompliant(sResults[c]) + (n - k))

C11_Witness ==
    /\ sScores # << >>
    /\ ~sOrg.present
    /\ Compliant(sResults["Security & Identity"]) = 3
    /\ Cardinality(Counted(sResults["Security & Identity"], {"Action Required"})) = 1
    /\ sScores["Security & Identity"] = 7500
    /\ sResults["Reliability & Resilience"] = << >>
    /\ sScores["Reliability & Resilience"] = 10000
    /\ sScores["Cost Optimization"] = 10000

FourThenSuccess == <<"rate", "rate", "rate", "rate", "ok">>

\* C12: once the helper has returned, a call that raised the rate-limit error
\* four times and then succeeded has given the success value after exactly
\* four delays; a call that raised it every time has given the empty result;
\* and the delays slept are strictly increasing whatever the jitter.
C12_BackoffRetries ==
    /\ \A i \in 1..Len(bDelays), j \in 1..Len(bDelays) : i < j => bDelays[i] < bDelays[j]
    /\ (bResult # "none" /\ bCalls = FourThenSuccess)
          => bResult = "value" /\ Len(bDelays) = 4
    /\ (bResult # "none" /\ \A i \in 1..max_retries : bCalls[i] = "rate")
          => bResult = "empty" /\ Len(bDelays) = max_retries - 1
    /\ bResult \in {"none", "value", "empty"}

\* the largest jitter on the first delay, none on the second
C12_Witness ==
    /\ bCalls = FourThenSuccess /\ bResult = "value" /\ Len(bDelays) = 4
    /\ bDelays[1] = Delay(0, 2 * JitterSteps - 1)
    /\ bDelays[2] = Delay(1, 0)

\* the markers of the three projects are in the bucket
ThreeMarked(s) == \A i \in 1..3 : MarkerKey(ThreeProjects[i]) \in DOMAIN s

\* the step in which aggregation a renders and uploads the report
Reports(a) ==
    a.pc = "queued" /\ \E a2 \in BagToSet(aggs') : a2.pc = "purge" /\ aggs' = Move(aggs, a, a2)

\* the step in which aggregation a writes status completed
Completes(a) ==
    a.pc = "finish" /\ aggs' = Move(aggs, a, [a EXCEPT !.pc = "done", !.resp = 200])

Populated(report) == {c \in Categories : DOMAIN report.checks[c] # {}}

\* what the claim's scenario shares with the code: ready once the three
\* markers and the dispatcher's status record exist, two populated
\* categories in the report, an empty transient store at completion
EndToEndFrame(action_count, compliant_count) ==
    /\ (ThreeMarked(store) /\ HasCount(store, 3))
          => StatusResponse(store).status = "ready_to_aggregate"
    /\ \A a \in BagToSet(aggs) :
          /\ (Reports(a) /\ ThreeMarked(store))
                => /\ store'[HtmlKey].action_count = action_count
                   /\ store'[HtmlKey].compliant_count = compliant_count
                   /\ Cardinality(Populated(store'[HtmlKey])) = 2
          /\ Completes(a) => TransientKeys(store') = {}

StatusIs(s, st) == StatusKey \in DOMAIN s /\ s[StatusKey].status = st

\* C14: after a failed inventory lookup, and unless a report was requested
\* through /generate-report, the job has no worker invocation, no report
\* artifact and never status completed.
C14_InventoryFailureAborts ==
    (disp.inventory = "failed" /\ TaskAggCount = 0)
        => /\ workers = EmptyBag
           /\ HtmlKey \notin DOMAIN store /\ CsvKey \notin DOMAIN store
           /\ ~StatusIs(store, "completed")

\* the place of a status response in the order pending -> dispatched ->
\* processing -> ready_to_aggregate -> aggregating -> completed | error
PhaseRank(r) ==
    CASE r.status = "pending" -> 0
      [] r.status = "running" /\ r.progress < 50 -> 1
      [] r.status = "running" /\ r.progress = 50 -> 2
      [] r.status = "ready_to_aggregate" -> 3
      [] r.status = "running" /\ r.progress > 50 -> 4
      [] OTHER -> 5

\* C15: for a dispatched fan-out job, no step takes the phase the status
\* query reports backwards, and no step leaves completed or error.
C15_PhaseMonotonic ==
    [][Dispatched =>
          /\ PhaseRank(StatusResponse(store')) >= PhaseRank(StatusResponse(store))
          /\ StatusResponse(store).status \in {"completed", "error"}
                => StatusResponse(store').status = StatusResponse(store).status]_vars

ReportsCount(s) == "completed_projects" \in DOMAIN StatusResponse(s)

\* C16: for a dispatched fan-out job, no step lowers the completed_count the
\* status query reports.
C16_CompletedCountMonotonic ==
    [][(Dispatched /\ ReportsCount(store) /\ ReportsCount(store'))
          => StatusResponse(store').completed_projects
                >= StatusResponse(store).completed_projects]_vars

\* the blobs the bucket holds under the folder of project res
ProjectBlobs(s, res) ==
    [k \in {x \in TransientKeys(s) : x.res = res} |-> s[k]]

\* what one delivery of the invocation for project res leaves in that folder
RECURSIVE WriteAll(_, _, _)
WriteAll(s, res, checks) ==
    IF checks = {} THEN s
    ELSE LET c == CHOOSE x \in checks : TRUE
         IN WriteAll(Put(s, FindingKey(res, c),
                         [Check |-> c, Finding |-> << <<res, c>> >>,
                          Status |-> CheckResult(res, c)]),
                     res, checks \ {c})

OnceDelivered(res) == Put(WriteAll(<< >>, res, WorkerChecks), MarkerKey(res), [text |-> ""])

NoPurgeYet == \A a \in BagToSet(aggs) : a.pc = "queued"

\* C17: while nothing has been purged, the folder of a project whose
\* invocation has answered 200 with its marker written holds exactly what one
\* delivery leaves there, whatever other deliveries for the project have done.
C17_WorkerIdempotent ==
    \A w \in BagToSet(workers) :
        (w.mode = "task" /\ w.pc = "done" /\ w.wrote /\ NoPurgeYet)
            => ProjectBlobs(store, w.res) = OnceDelivered(w.res)

\* two deliveries for p1 have both completed
C17_Witness ==
    /\ NoPurgeYet
    /\ \E w \in BagToSet(workers) :
          w.res = "p1" /\ w.pc = "done" /\ w.wrote /\ CopiesIn(w, workers) = 2
    /\ ProjectBlobs(store, "p1") = OnceDelivered("p1")

\* a /scan-project task of the job has been created and has not answered yet
WorkerPending == \E w \in BagToSet(workers) : w.mode = "task" /\ w.pc # "done"

\* C18: whenever a worker invocation of the job is enqueued or running, the
\* status record carries project_count = N, the length of the resolved list.
C18_CountBeforeEnqueue ==
    WorkerPending
        => /\ StatusKey \in DOMAIN store
           /\ "project_count" \in DOMAIN store[StatusKey]
           /\ store[StatusKey].project_count = Len(disp.list)

\* the dispatcher left the fan-out path with an exception
DispatchFailed == disp.pc = "done" /\ disp.resp = 500 /\ FanOut(Len(disp.list))

\* C19: when dispatch has failed on the fan-out path (and no report was
\* requested through /generate-report), the status is error and the job has
\* no worker invocation.
C19_DispatchFailureSurfaced ==
    (DispatchFailed /\ TaskAggCount = 0)
        => /\ StatusIs(store, "error")
           /\ workers = EmptyBag

\* the findings the in-process scan of the single unit wrote are all there
InlineFindingsKept ==
    \A w \in BagToSet(workers) :
        (w.mode = "inline" /\ w.pc = "done" /\ w.resp = 200)
            => \A c \in WorkerChecks : FindingKey(w.res, c) \in DOMAIN store

\* C20: when the aggregation at the end of the synchronous path has raised
\* (and no report was requested through /generate-report), the status is
\* error and the findings of the scan are still in the bucket.
C20_SyncAggregationFailure ==
    \A a \in BagToSet(aggs) :
        (a.mode = "sync" /\ a.pc = "done" /\ a.resp = 500 /\ TaskAggCount = 0)
            => /\ StatusIs(store, "error")
               /\ InlineFindingsKept

\* the loop over blob_list has ended
MergeDone == mBlobs # << >> /\ mIdx > Len(mBlobs)

IsFindingBlob(b) == "Check" \in DOMAIN b.data

\* the check names of the aggregate
AggregateChecks == UNION {DOMAIN mAcc[c] : c \in Categories}

\* C21: when the merge has ended, the checks of the aggregate are exactly the
\* taxonomy names recovered from the keys of the listed finding blobs, and
\* every listed finding whose check is a taxonomy check is in the aggregate,
\* under that check and with its detail records.
C21_AggregateTaxonomy ==
    MergeDone =>
        /\ AggregateChecks =
              {CheckNameOfBlob(mBlobs[i].key.name) :
                  i \in {j \in 1..Len(mBlobs) :
                            /\ IsFindingBlob(mBlobs[j])
                            /\ category_map(CheckNameOfBlob(mBlobs[j].key.name)) # ""}}
        /\ \A i \in 1..Len(mBlobs) :
              (IsFindingBlob(mBlobs[i]) /\ category_map(mBlobs[i].data.Check) # "")
                  => LET n == mBlobs[i].data.Check
                         grp == mAcc[category_map(n)]
                     IN /\ n \in DOMAIN grp
                        /\ \A d \in 1..Len(mBlobs[i].data.Finding) :
                              \E e \in 1..Len(grp[n].details) :
                                  grp[n].details[e] = mBlobs[i].data.Finding[d]

CountIn(seq, r) == Cardinality({i \in 1..Len(seq) : seq[i] = r})

\* the detail records of the blobs in idx and of the list details
RecordsOf(idx, details) ==
    UNION {{mBlobs[i].data.Finding[j] : j \in 1..Len(mBlobs[i].data.Finding)} : i \in idx}
        \cup {details[e] : e \in 1..Len(details)}

\* C22: once every blob is merged, the detail list of a check holds each
\* detail record as many times as the finding blobs of that check hold it
\* together, whatever projects they come from; a check without a finding
\* blob has no entry.
C22_DetailsComplete ==
    mIdx > Len(mBlobs) =>
        \A c \in WorkerChecks :
            IF BlobsOf(c) = {} THEN c \notin DOMAIN mAcc[category_map(c)]
            ELSE /\ c \in DOMAIN mAcc[category_map(c)]
                 /\ LET details == mAcc[category_map(c)][c].details
                    IN \A r \in RecordsOf(BlobsOf(c), details) :
                          CountIn(details, r) =
                              SumOver([i \in BlobsOf(c) |-> CountIn(mBlobs[i].data.Finding, r)],
                                      BlobsOf(c))

\* the findings of one check for three projects, merged
C22_Witness ==
    /\ Len(mBlobs) = 3 /\ mIdx = 4
    /\ \A i \in 1..3 : mBlobs[i].key.name = FileOf(PublicBuckets)
    /\ {mBlobs[i].key.res : i \in 1..3} = {"p1", "p2", "p3"}
    /\ Len(mAcc["Security & Identity"][PublicBuckets].details) = 3

\* C23: the helper never invokes the call again after it raised an exception
\* other than the rate-limit error (raised by the first invocation: one
\* invocation, no delay) and then returns the empty result; it makes at most
\* max_retries invocations and max_retries - 1 delays; and it returns.
C23_OnlyRateLimitRetried ==
    /\ [](/\ \A k \in 1..max_retries : bCalls[k] = "other" => bAttempt < k
          /\ (bResult # "none" /\ bCalls[bAttempt + 1] = "other") => bResult = "empty"
          /\ bAttempt + 1 <= max_retries
          /\ Len(bDelays) = bAttempt
          /\ Len(bDelays) <= max_retries - 1)
    /\ <>(bResult # "none")

\* the first invocation raised another exception
C23_Witness ==
    /\ bCalls[1] = "other" /\ bCalls[2] = "ok"
    /\ bResult = "empty" /\ bAttempt = 0 /\ bDelays = << >>

\* C24: no step taken while a second or later delivery of /run-scan is under
\* way adds a worker invocation, resolves the resource list, or takes the
\* job's status away from completed.
C24_DispatchIdempotent ==
    [][disp.delivery > 1 =>
          /\ BagCardinality(workers') = BagCardinality(workers)
          /\ ~(disp.pc = "resolve" /\ disp'.pc # "resolve")
          /\ StatusIs(store, "completed") => StatusIs(store', "completed")]_vars

\* a project of the resolved list has no marker in the bucket
SomeUnitUnmarked(s) == \E i \in 1..Len(disp.list) : MarkerKey(disp.list[i]) \notin DOMAIN s

C26_FanInLive ==
    Dispatched ~> (StatusResponse(store).status = "ready_to_aggregate")

\* C27: in the step in which a /scan-project invocation answers 200, the
\* marker of its project is in the bucket, and the invocation has written it.
C27_SuccessImpliesMarker ==
    [][\A w \in BagToSet(workers) : \A w2 \in BagToSet(workers') :
          (w.mode = "task" /\ Returns(w, w2) /\ w2.resp = 200)
              => /\ MarkerKey(w.res) \in DOMAIN store'
                 /\ w2.wrote]_vars

\* a blob a check wrote: not a marker, not raw policy data
IsFindingKey(k) ==
    /\ k.dir = "temp_findings"
    /\ k.name \notin {SuccessName, BestPracticesName, CurrentPoliciesName}

\* C28: every finding blob a purge step of an aggregation run deletes was in
\* the list that run read and merged.
C28_PurgedWasRead ==
    [][\A a \in BagToSet(aggs) :
          (a.pc = "purge" /\ Steps(a))
              => \A k \in (DOMAIN store) \ (DOMAIN store') :
                    IsFindingKey(k) => k \in a.read]_vars

\* the keys outside the job's "temp_findings/" prefix
Kept(s) == (DOMAIN s) \ TransientKeys(s)

SameBlob(k) == k \in DOMAIN store' /\ store'[k] = store[k]

\* C29: a purge step adds no key and leaves every blob outside the job's
\* transient prefix as it was: both report artifacts, every blob of another
\* job, and the status record (which only the handler of a failed delete
\* rewrites, as status error).
C29_PurgeFrame ==
    [][\A a \in BagToSet(aggs) :
          (a.pc = "purge" /\ Steps(a))
              => /\ DOMAIN store' \subseteq (DOMAIN store) \cup {StatusKey}
                 /\ \A k \in Kept(store) \ {StatusKey} : SameBlob(k)
                 /\ (\E a2 \in BagToSet(aggs') : a2.pc = "finish" /\ aggs' = Move(aggs, a, a2))
                       => (StatusKey \in DOMAIN store => SameBlob(StatusKey))]_vars

\* a purge has emptied the transient prefix; the rest is in place
C29_Witness ==
    /\ \E a \in BagToSet(aggs) : a.pc = "finish"
    /\ \E w \in BagToSet(workers) : w.pc = "done" /\ w.wrote
    /\ TransientKeys(store) = {}
    /\ {StatusKey, HtmlKey, CsvKey} \subseteq DOMAIN store
    /\ \A k \in DOMAIN OtherJobBlobs : k \in DOMAIN store /\ store[k] = OtherJobBlobs[k]

\* C30: whenever the job's status record is completed, the HTML report and
\* the CSV export of the job are in the bucket.
C30_CompletedHasArtifacts ==
    StatusIs(store, "completed") => {HtmlKey, CsvKey} \subseteq DOMAIN store

\* an aggregation run has written status completed
C30_Witness ==
    /\ StatusIs(store, "completed")
    /\ \E a \in BagToSet(aggs) : a.pc = "done" /\ a.resp = 200
    /\ {HtmlKey, CsvKey} \subseteq DOMAIN store

====
